---- MODULE Spec2Model ----
(***************************************************************************)
(* Splash -> Webflow event sync (src/index.js).                            *)
(*                                                                         *)
(* The module models sync() as a state machine whose steps are the awaits  *)
(* of the function, the two external stores (the Splash listing and the    *)
(* Webflow collection) as variables, and mapSplashToWebflow as an          *)
(* operator.                                                               *)
(*                                                                         *)
(* Representation of JavaScript values:                                    *)
(*   - a title is a sequence of one-character strings (<<>> is the empty   *)
(*     or absent title, both falsy);                                       *)
(*   - an event id is an integer, NoId standing for undefined;             *)
(*   - other optional strings are strings, "" standing for empty/absent    *)
(*     (both falsy);                                                       *)
(*   - a URL of a header image is a sequence of tokens, the first one its  *)
(*     scheme (<<>> is absent);                                            *)
(*   - the published flag is one of the tags JSTrue, JSFalse, JSUndefined. *)
(***************************************************************************)
EXTENDS Integers, Sequences, FiniteSets, TLC

VARIABLES
    schema,          \* Webflow: slugs of the collection's fields
    source,          \* Splash: the listing /events returns
    dest,            \* Webflow: the collection's items
    run,             \* which run of sync() this is
    pc,              \* position of sync()
    fieldSlugs,      \* sync: const fieldSlugs
    allSplashEvents, \* sync: const allSplashEvents
    splashEvents,    \* sync: const splashEvents
    existingIds,     \* fetchExistingSplashIds: existingIds; then sync: existingIds
    offset,          \* fetchExistingSplashIds: offset
    newEvents,       \* sync: const newEvents
    idx,             \* sync: position of the for-of loop over newEvents
    synced,          \* sync: let synced
    syncedEvents,    \* sync: const syncedEvents
    errors,          \* sync: const errors
    result,          \* what sync() returned
    thrown,          \* what sync() threw
    done,            \* the reads of this run that have completed successfully
    createCalls,     \* the POSTs createWebflowEvent issued in this run
    pages,           \* the page requests fetchExistingSplashIds issued in this run
    paced,           \* a pacing delay has completed since the last create call
    notifications,   \* the calls of sendSlackNotification in this run
    prevClean,       \* the previous run returned with an empty errors list
    scanned,         \* fetchExistingSplashIds: the local existingIds, while the scan runs
    inFlight,        \* the POSTs of createWebflowEvent that have not been answered yet
    reads,           \* the schema, token and listing requests issued in this run
    mapEvent,        \* projection check: the record given to mapSplashToWebflow
    projected        \* projection check: what mapSplashToWebflow returned

vars == << schema, source, dest, run, pc, fieldSlugs, allSplashEvents, splashEvents,
           existingIds, offset, newEvents, idx, synced, syncedEvents, errors, result,
           thrown, done, createCalls, pages, paced, notifications, prevClean,
           scanned, inFlight, reads, mapEvent, projected >>

----------------------------------------------------------------------------
(* Bounds of the model *)

MaxId == 2        \* event ids are 1..MaxId
MaxSource == 2    \* length of the Splash listing
MaxTitle == 3     \* length of the short titles
MaxExternal == 1  \* items another writer adds during a run

(* Program constants *)

Limit == 100      \* fetchExistingSplashIds: const limit
SlugMax == 100    \* mapSplashToWebflow: substring(0, 100)

----------------------------------------------------------------------------
(* JavaScript values *)

JSTrue == "true"
JSFalse == "false"
JSUndefined == "undefined"

NoId == 0 - 1
NoResult == [kind |-> "none"]
Nothing == "nothing"

Digit == << "0", "1", "2", "3", "4", "5", "6", "7", "8", "9" >>

RECURSIVE Decimal(_)
\* the decimal digits of a natural number, as a sequence of characters
Decimal(n) ==
    IF n < 10 THEN << Digit[n + 1] >>
    ELSE Decimal(n \div 10) \o << Digit[(n % 10) + 1] >>

\* String(id): an identifier as the characters JavaScript prints for it
String(id) ==
    IF id = NoId THEN << "u", "n", "d", "e", "f", "i", "n", "e", "d" >>
    ELSE Decimal(id)

\* JavaScript truthiness of a string ("" is falsy) and of a character sequence
TruthyStr(s) == s # ""
TruthySeq(s) == s # << >>

Min(a, b) == IF a < b THEN a ELSE b

Range(s) == { s[i] : i \in DOMAIN s }

\* an object with one more property
Put(obj, k, v) == [ x \in (DOMAIN obj) \cup {k} |-> IF x = k THEN v ELSE obj[x] ]

EmptyObject == [ x \in {} |-> Nothing ]

----------------------------------------------------------------------------
(* FIELD MAPPING: mapSplashToWebflow *)

UpperCase == << "A", "B", "C", "D", "E", "F", "G", "H", "I", "J", "K", "L", "M",
                "N", "O", "P", "Q", "R", "S", "T", "U", "V", "W", "X", "Y", "Z" >>
LowerCase == << "a", "b", "c", "d", "e", "f", "g", "h", "i", "j", "k", "l", "m",
                "n", "o", "p", "q", "r", "s", "t", "u", "v", "w", "x", "y", "z" >>

\* String.prototype.toLowerCase, one character
LowerChar(c) ==
    IF \E i \in DOMAIN UpperCase : UpperCase[i] = c
    THEN LowerCase[CHOOSE i \in DOMAIN UpperCase : UpperCase[i] = c]
    ELSE c

ToLowerCase(s) == [ i \in DOMAIN s |-> LowerChar(s[i]) ]

\* the character class [a-z0-9]
SlugChar(c) == c \in Range(LowerCase) \cup Range(Digit)

\* .replace(/[^a-z0-9]+/g, '-'): every maximal run outside [a-z0-9] becomes one hyphen
\* (of each run the first character is kept, as a hyphen)
ReplaceRuns(s) ==
    LET kept == SelectSeq([ i \in DOMAIN s |-> i ],
                          LAMBDA i : SlugChar(s[i]) \/ i = 1 \/ SlugChar(s[i - 1]))
    IN  [ k \in DOMAIN kept |-> IF SlugChar(s[kept[k]]) THEN s[kept[k]] ELSE "-" ]

\* .replace(/^-|-$/g, ''): one hyphen off the start, one off the end
StripHyphens(s) ==
    LET a == IF s # << >> /\ Head(s) = "-" THEN Tail(s) ELSE s
    IN  IF a # << >> /\ a[Len(a)] = "-" THEN SubSeq(a, 1, Len(a) - 1) ELSE a

\* .substring(0, 100)
Truncate(s) == SubSeq(s, 1, Min(Len(s), SlugMax))

Untitled == << "U", "n", "t", "i", "t", "l", "e", "d", " ", "E", "v", "e", "n", "t" >>

\* const title = splashEvent.title || 'Untitled Event'
TitleOf(splashEvent) ==
    IF TruthySeq(splashEvent.title) THEN splashEvent.title ELSE Untitled

\* faulty variant: .substring(0, 100) comes before the hyphens are stripped
SlugOfTruncatedFirst(title) == StripHyphens(Truncate(ReplaceRuns(ToLowerCase(title))))

\* const slug = title.toLowerCase().replace(...).replace(...).substring(0, 100)
SlugOf(title) == Truncate(StripHyphens(ReplaceRuns(ToLowerCase(title))))

\* The timestamps new Date() parses to a valid instant, with what toISOString and
\* toLocaleTimeString('en-US', ...) print for them
Instants ==
    [ x \in { "2026-03-01T18:30:00Z", "March 5, 2026 09:05" } |->
        IF x = "2026-03-01T18:30:00Z"
        THEN [ iso |-> "2026-03-01T18:30:00.000Z", time |-> "6:30 PM" ]
        ELSE [ iso |-> "2026-03-05T09:05:00.000Z", time |-> "9:05 AM" ] ]

\* !isNaN(new Date(splashEvent.event_start).getTime())
ValidDate(s) == s \in DOMAIN Instants

\* let eventDate = null ... eventDate = dateObj.toISOString()
EventDate(splashEvent) ==
    IF TruthyStr(splashEvent.event_start) /\ ValidDate(splashEvent.event_start)
    THEN Instants[splashEvent.event_start].iso ELSE ""

\* let eventTime = '' ... eventTime = dateObj.toLocaleTimeString(...)
EventTime(splashEvent) ==
    IF TruthyStr(splashEvent.event_start) /\ ValidDate(splashEvent.event_start)
    THEN Instants[splashEvent.event_start].time ELSE ""

\* const fieldData = { 'name': title, 'slug': slug }
BaseFields(splashEvent, slugs) ==
    [ k \in { "name", "slug" } |->
        IF k = "name" THEN TitleOf(splashEvent) ELSE SlugOf(TitleOf(splashEvent)) ]

\* if (fieldSlugs.has('splash-id')) fieldData['splash-id'] = String(splashEvent.id)
WithSplashId(fd, splashEvent, slugs) ==
    IF "splash-id" \in slugs THEN Put(fd, "splash-id", String(splashEvent.id)) ELSE fd

\* faulty variant: the URL is emitted without asking the schema
WithSplashUrlAnySchema(fd, splashEvent, slugs) ==
    IF TruthyStr(splashEvent.fq_url) THEN Put(fd, "splash-url", splashEvent.fq_url) ELSE fd

\* if (fieldSlugs.has('splash-url') && splashEvent.fq_url) ...
WithSplashUrl(fd, splashEvent, slugs) ==
    IF "splash-url" \in slugs /\ TruthyStr(splashEvent.fq_url)
    THEN Put(fd, "splash-url", splashEvent.fq_url) ELSE fd

\* if (fieldSlugs.has('date') && eventDate) ...
WithDate(fd, splashEvent, slugs) ==
    IF "date" \in slugs /\ TruthyStr(EventDate(splashEvent))
    THEN Put(fd, "date", EventDate(splashEvent)) ELSE fd

\* faulty variant: the time is written inside the branch that writes the date
WithTimeNeedsDate(fd, splashEvent, slugs) ==
    IF "time" \in slugs /\ "date" \in slugs /\ TruthyStr(EventTime(splashEvent))
    THEN Put(fd, "time", EventTime(splashEvent)) ELSE fd

\* if (fieldSlugs.has('time') && eventTime) ...
WithTime(fd, splashEvent, slugs) ==
    IF "time" \in slugs /\ TruthyStr(EventTime(splashEvent))
    THEN Put(fd, "time", EventTime(splashEvent)) ELSE fd

\* faulty variant: the header image URL is used as it is
ImageUrlAsIs(splashEvent) == splashEvent.header_image

\* let imageUrl = ...header_image; http:// is replaced by https://
ImageUrl(splashEvent) ==
    LET u == splashEvent.header_image
    IN  IF TruthySeq(u) /\ Head(u) = "http://" THEN << "https://" >> \o Tail(u) ELSE u

\* if (fieldSlugs.has('thumbnail') && imageUrl) fieldData['thumbnail'] = { url: imageUrl }
WithThumbnail(fd, splashEvent, slugs) ==
    IF "thumbnail" \in slugs /\ TruthySeq(ImageUrl(splashEvent))
    THEN Put(fd, "thumbnail", [ url |-> ImageUrl(splashEvent) ]) ELSE fd

\* a header_image that is not a string (an object), as a URL whose one token is its
\* string form
NotAString == "[object Object]"

\* imageUrl && imageUrl.startsWith('http://') on a truthy value that is not a string:
\* TypeError, imageUrl.startsWith is not a function
MapThrows(splashEvent) ==
    TruthySeq(splashEvent.header_image) /\ Head(splashEvent.header_image) = NotAString

CitySlugs == << "location-city", "location---city", "locationcity" >>
StateSlugs == << "location-state", "location---state", "location---state-2", "locationstate" >>
TypeSlugs == << "event-type", "event-type-2", "eventtype", "type" >>

\* faulty variant: the loop has no break, every alias the schema has is written
WithAliasNoBreak(fd, aliases, value, slugs) ==
    [ x \in (DOMAIN fd) \cup { aliases[i] : i \in { j \in DOMAIN aliases :
                                                      aliases[j] \in slugs /\ TruthyStr(value) } } |->
        IF x \in DOMAIN fd THEN fd[x] ELSE value ]

\* for (const s of aliases) { if (fieldSlugs.has(s) && value) { fieldData[s] = value; break; } }
WithAlias(fd, aliases, value, slugs) ==
    LET hits == { i \in DOMAIN aliases : aliases[i] \in slugs /\ TruthyStr(value) }
    IN  IF hits = {} THEN fd
        ELSE Put(fd, aliases[CHOOSE i \in hits : \A j \in hits : i <= j], value)

\* function mapSplashToWebflow(splashEvent, fieldSlugs)
MapSplashToWebflow(splashEvent, slugs) ==
    LET f0 == BaseFields(splashEvent, slugs)
        f1 == WithSplashId(f0, splashEvent, slugs)
        f2 == WithSplashUrl(f1, splashEvent, slugs)
        f3 == WithDate(f2, splashEvent, slugs)
        f4 == WithTime(f3, splashEvent, slugs)
        f5 == WithThumbnail(f4, splashEvent, slugs)
        f6 == WithAlias(f5, CitySlugs, splashEvent.city, slugs)
        f7 == WithAlias(f6, StateSlugs, splashEvent.state, slugs)
    IN  WithAlias(f7, TypeSlugs, splashEvent.event_type, slugs)

----------------------------------------------------------------------------
(* WEBFLOW: the collection's items *)

\* An item of the collection nobody gave a Splash id: by position, one without
\* fieldData, one whose fieldData has no 'splash-id', one whose 'splash-id' is ''
LegacyItem(i) ==
    IF i % 3 = 0 THEN [ isDraft |-> FALSE, isArchived |-> FALSE ]
    ELSE IF i % 3 = 1
    THEN [ isDraft |-> FALSE, isArchived |-> FALSE,
           fieldData |-> [ k \in { "name" } |-> << "x" >> ] ]
    ELSE [ isDraft |-> FALSE, isArchived |-> FALSE,
           fieldData |-> [ k \in { "name", "splash-id" } |-> << >> ] ]

\* The item at position i of the collection d (positions d.items does not list hold
\* legacy items)
DestItem(d, i) == IF i \in DOMAIN d.items THEN d.items[i] ELSE LegacyItem(i)

\* GET /collections/:id/items?offset=&limit= : the items after the first `off`, at
\* most `lim` of them
Page(d, off, lim) ==
    [ i \in 1..(IF d.len > off THEN Min(lim, d.len - off) ELSE 0) |-> DestItem(d, off + i) ]

\* faulty variant: the item is written over the last item of the collection (an
\* update of an existing item, not a creation)
StoredOverLast(d, body) ==
    IF d.len = 0 THEN [ len |-> 1, items |-> [ i \in { 1 } |-> body ] ]
    ELSE [ len |-> d.len,
           items |-> [ i \in (DOMAIN d.items) \cup { d.len } |->
                         IF i = d.len THEN body ELSE d.items[i] ] ]

\* POST /collections/:id/items : the collection with the posted item stored
Stored(d, body) ==
    [ len |-> d.len + 1,
      items |-> [ i \in (DOMAIN d.items) \cup { d.len + 1 } |->
                    IF i = d.len + 1 THEN body ELSE d.items[i] ] ]

\* item.fieldData?.['splash-id'] (undefined reads as the falsy << >>)
SplashIdOf(item) ==
    IF "fieldData" \in DOMAIN item /\ "splash-id" \in DOMAIN item.fieldData
    THEN item.fieldData["splash-id"] ELSE << >>

\* for (const item of items) { ... if (splashId) existingIds.add(splashId) }
PageIds(items) ==
    { SplashIdOf(items[i]) : i \in { j \in DOMAIN items : TruthySeq(SplashIdOf(items[j])) } }

\* the non-empty 'splash-id' values over all the items of a collection
StoredIds(d) ==
    { SplashIdOf(DestItem(d, i)) : i \in 1..d.len } \ { << >> }

\* faulty variant: the field map is spread over the body: { isArchived: false, isDraft: true,
\* ...eventData, fieldData: eventData }
CreateBodySpread(eventData) ==
    [ isArchived |-> IF "isArchived" \in DOMAIN eventData THEN eventData["isArchived"] ELSE FALSE,
      isDraft |-> IF "isDraft" \in DOMAIN eventData THEN eventData["isDraft"] ELSE TRUE,
      fieldData |-> eventData ]

\* body: JSON.stringify({ isArchived: false, isDraft: true, fieldData: eventData })
CreateBody(eventData) ==
    [ isArchived |-> FALSE, isDraft |-> TRUE, fieldData |-> eventData ]

----------------------------------------------------------------------------
(* MAIN SYNC: sync(), one action per await *)

Returned(value) == [ kind |-> "returned", value |-> value ]

\* what every run starts from
FreshRun ==
    /\ pc' = "INIT"
    /\ fieldSlugs' = {}
    /\ allSplashEvents' = << >>
    /\ splashEvents' = << >>
    /\ existingIds' = {}
    /\ offset' = 0
    /\ newEvents' = << >>
    /\ idx' = 0
    /\ synced' = 0
    /\ syncedEvents' = << >>
    /\ errors' = << >>
    /\ result' = NoResult
    /\ thrown' = Nothing
    /\ done' = {}
    /\ createCalls' = << >>
    /\ pages' = << >>
    /\ paced' = TRUE
    /\ notifications' = << >>
    /\ scanned' = {}
    /\ inFlight' = 0
    /\ reads' = << >>

\* throw new Error(...): the error leaves sync(), which returns nothing
Throw(what) ==
    /\ pc' = "FAILED"
    /\ thrown' = what
    /\ UNCHANGED << schema, source, dest, run, fieldSlugs, allSplashEvents, splashEvents,
                    existingIds, offset, newEvents, idx, synced, syncedEvents, errors,
                    result, done, createCalls, paced, notifications, prevClean,
                    mapEvent, projected,
                    scanned, inFlight >>

\* if (missing.length > 0) throw new Error(`Missing required env vars: ...`)
EnvMissing ==
    /\ pc = "INIT"
    /\ reads' = reads
    /\ pages' = pages
    /\ Throw("Missing required env vars")

\* const fields = await fetchCollectionSchema(); const fieldSlugs = new Set(...)
FetchSchemaOk ==
    /\ pc = "INIT"
    /\ pc' = "SCHEMA_LOADED"
    /\ fieldSlugs' = schema
    /\ reads' = Append(reads, "schema")
    /\ done' = done \cup { "schema" }
    /\ UNCHANGED << schema, source, dest, run, allSplashEvents, splashEvents, existingIds,
                    offset, newEvents, idx, synced, syncedEvents, errors, result, thrown,
                    createCalls, pages, paced, notifications, prevClean, mapEvent,
                    projected,
                    scanned, inFlight >>

\* fetchCollectionSchema: if (!response.ok) throw
FetchSchemaFail ==
    /\ pc = "INIT"
    /\ reads' = Append(reads, "schema")
    /\ pages' = pages
    /\ Throw("Webflow schema fetch failed")

\* const accessToken = await getSplashAccessToken()
GetTokenOk ==
    /\ pc = "SCHEMA_LOADED"
    /\ pc' = "AUTHED"
    /\ reads' = Append(reads, "token")
    /\ done' = done \cup { "token" }
    /\ UNCHANGED << schema, source, dest, run, fieldSlugs, allSplashEvents, splashEvents,
                    existingIds, offset, newEvents, idx, synced, syncedEvents, errors,
                    result, thrown, createCalls, pages, paced, notifications, prevClean,
                    mapEvent, projected,
                    scanned, inFlight >>

\* faulty variant: a failed token request is made a second time before sync() gives up
GetTokenFailRetries ==
    /\ pc = "SCHEMA_LOADED"
    /\ reads' = Append(reads, "token")
    /\ IF \E i \in DOMAIN reads : reads[i] = "token"
       THEN /\ pages' = pages
            /\ Throw("Splash auth failed")
       ELSE UNCHANGED << schema, source, dest, run, pc, fieldSlugs, allSplashEvents,
                         splashEvents, existingIds, offset, newEvents, idx, synced,
                         syncedEvents, errors, result, thrown, done, createCalls, pages,
                         paced, notifications, prevClean, mapEvent, projected, scanned,
                         inFlight >>

\* getSplashAccessToken: if (!response.ok) throw
GetTokenFail ==
    /\ pc = "SCHEMA_LOADED"
    /\ reads' = Append(reads, "token")
    /\ pages' = pages
    /\ Throw("Splash auth failed")

\* faulty variant: event.published !== false
PublishedNotFalse(events) == SelectSeq(events, LAMBDA e : e.published # JSFalse)

\* allSplashEvents.filter(event => event.published === true)
Published(events) == SelectSeq(events, LAMBDA e : e.published = JSTrue)

\* const allSplashEvents = await fetchSplashEvents(accessToken); const splashEvents = ...
FetchEventsOk ==
    /\ pc = "AUTHED"
    /\ pc' = "SOURCE_LOADED"
    /\ allSplashEvents' = source
    /\ splashEvents' = Published(source)
    /\ reads' = Append(reads, "source")
    /\ done' = done \cup { "source" }
    /\ UNCHANGED << schema, source, dest, run, fieldSlugs, existingIds, offset, newEvents,
                    idx, synced, syncedEvents, errors, result, thrown, createCalls, pages,
                    paced, notifications, prevClean, mapEvent, projected,
                    scanned, inFlight >>

\* fetchSplashEvents: if (!response.ok) throw
FetchEventsFail ==
    /\ pc = "AUTHED"
    /\ reads' = Append(reads, "source")
    /\ pages' = pages
    /\ Throw("Splash events fetch failed")

\* faulty variant: if (items.length <= limit) break
LastPageInclusive(items) == Len(items) <= Limit

\* if (items.length < limit) break
LastPage(items) == Len(items) < Limit

\* faulty variant: offset++ (a page number, not an offset)
NextOffsetByOne(off) == off + 1

\* offset += limit
NextOffset(off) == off + Limit

\* fetchExistingSplashIds: one turn of while (true), the page request answered;
\* after the last page, return existingIds, and in sync
\* const existingIds = await fetchExistingSplashIds()
ScanPage ==
    /\ pc = "SOURCE_LOADED"
    /\ LET items == Page(dest, offset, Limit)
       IN  /\ scanned' = scanned \cup PageIds(items)
           /\ pages' = Append(pages, [ offset |-> offset, limit |-> Limit, ok |-> TRUE,
                                       count |-> Len(items) ])
           /\ IF LastPage(items)
              THEN /\ pc' = "DEDUP_LOADED"
                   /\ done' = done \cup { "scan" }
                   /\ offset' = offset
                   /\ existingIds' = scanned \cup PageIds(items)
              ELSE /\ pc' = pc
                   /\ done' = done
                   /\ offset' = NextOffset(offset)
                   /\ existingIds' = existingIds
    /\ UNCHANGED << schema, source, dest, run, fieldSlugs, allSplashEvents, splashEvents,
                    newEvents, idx, synced, syncedEvents, errors, result, thrown,
                    createCalls, paced, notifications, prevClean, mapEvent, projected,
                    inFlight, reads >>

\* the request ?offset=...&limit=100 answered with !response.ok
FailedPage(off) == [ offset |-> off, limit |-> Limit, ok |-> FALSE, count |-> 0 ]

\* faulty variant: a failed page request ends the scan, which returns the ids
\* collected so far
ScanPageFailSwallowed ==
    /\ pc = "SOURCE_LOADED"
    /\ pc' = "DEDUP_LOADED"
    /\ existingIds' = scanned
    /\ UNCHANGED << schema, source, dest, run, fieldSlugs, allSplashEvents, splashEvents,
                    offset, newEvents, idx, synced, syncedEvents, errors, result, thrown,
                    done, createCalls, pages, paced, notifications, prevClean, mapEvent,
                    projected, scanned, inFlight, reads >>

\* faulty variant: if (!response.ok) break; the ids of the earlier pages are returned
ScanPageFailReturnsPartial ==
    /\ pc = "SOURCE_LOADED"
    /\ pc' = "DEDUP_LOADED"
    /\ pages' = Append(pages, FailedPage(offset))
    /\ existingIds' = scanned
    /\ done' = done \cup { "scan" }
    /\ UNCHANGED << schema, source, dest, run, fieldSlugs, allSplashEvents, splashEvents,
                    offset, newEvents, idx, synced, syncedEvents, errors, result, thrown,
                    createCalls, paced, notifications, prevClean, mapEvent, projected,
                    scanned, inFlight, reads >>

\* fetchExistingSplashIds: if (!response.ok) throw
ScanPageFail ==
    /\ pc = "SOURCE_LOADED"
    /\ pages' = Append(pages, FailedPage(offset))
    /\ reads' = reads
    /\ Throw("Webflow fetch failed")

\* faulty variant: !existingIds.has(event.id): the number is never a member of the set of
\* strings, whatever ids holds
NewOfRawId(events, ids) == SelectSeq(events, LAMBDA e : e.id \notin {})

\* splashEvents.filter(event => !existingIds.has(String(event.id)))
NewOf(events, ids) == SelectSeq(events, LAMBDA e : String(e.id) \notin ids)

\* faulty variant: const newEvents = splashEvents (no diff against the scan)
DiffKeepsAll ==
    /\ pc = "DEDUP_LOADED"
    /\ pc' = "DIFFED"
    /\ newEvents' = splashEvents
    /\ UNCHANGED << schema, source, dest, run, fieldSlugs, allSplashEvents, splashEvents,
                    existingIds, offset, idx, synced, syncedEvents, errors, result, thrown,
                    done, createCalls, pages, paced, notifications, prevClean, mapEvent,
                    projected, scanned, inFlight, reads >>

\* const newEvents = ...
Diff ==
    /\ pc = "DEDUP_LOADED"
    /\ pc' = "DIFFED"
    /\ newEvents' = NewOf(splashEvents, existingIds)
    /\ UNCHANGED << schema, source, dest, run, fieldSlugs, allSplashEvents, splashEvents,
                    existingIds, offset, idx, synced, syncedEvents, errors, result, thrown,
                    done, createCalls, pages, paced, notifications, prevClean, mapEvent,
                    projected,
                    scanned, inFlight, reads >>

\* if (newEvents.length === 0) return { synced: 0, total: splashEvents.length }
ReturnNothingNew ==
    /\ pc = "DIFFED"
    /\ newEvents = << >>
    /\ pc' = "DONE"
    /\ result' = Returned([ synced |-> 0, total |-> Len(splashEvents) ])
    /\ UNCHANGED << schema, source, dest, run, fieldSlugs, allSplashEvents, splashEvents,
                    existingIds, offset, newEvents, idx, synced, syncedEvents, errors,
                    thrown, done, createCalls, pages, paced, notifications, prevClean,
                    mapEvent, projected,
                    scanned, inFlight, reads >>

\* the record of one POST of createWebflowEvent
Call(event, body, ok) ==
    [ event |-> event, body |-> body, ok |-> ok, paced |-> paced, index |-> idx ]

\* let synced = 0; const syncedEvents = []; const errors = []; for (const event of newEvents)
EnterLoop ==
    /\ pc = "DIFFED"
    /\ newEvents # << >>
    /\ pc' = "WRITING"
    /\ idx' = 1
    /\ synced' = 0
    /\ syncedEvents' = << >>
    /\ errors' = << >>
    /\ UNCHANGED << schema, source, dest, run, fieldSlugs, allSplashEvents, splashEvents,
                    existingIds, offset, newEvents, result, thrown, done, createCalls,
                    pages, paced, notifications, prevClean, mapEvent, projected,
                    scanned, inFlight, reads >>


\* faulty variant: createWebflowEvent(fieldData) is not awaited, the loop goes on
IssueCreateUnawaited ==
    /\ pc = "WRITING"
    /\ idx <= Len(newEvents)
    /\ inFlight' = inFlight + 1
    /\ idx' = idx + 1
    /\ UNCHANGED << schema, source, dest, run, pc, fieldSlugs, allSplashEvents,
                    splashEvents, existingIds, offset, newEvents, synced, syncedEvents,
                    errors, result, thrown, done, createCalls, pages, paced,
                    notifications, prevClean, scanned, reads, mapEvent, projected >>

\* faulty variant: before each POST the collection is looked up again and a record it
\* now holds is skipped
IssueCreateUnlessStored ==
    /\ pc = "WRITING"
    /\ idx <= Len(newEvents)
    /\ ~MapThrows(newEvents[idx])
    /\ IF String(newEvents[idx].id) \in StoredIds(dest)
       THEN idx' = idx + 1 /\ UNCHANGED << pc, inFlight >>
       ELSE pc' = "CREATING" /\ inFlight' = inFlight + 1 /\ idx' = idx
    /\ UNCHANGED << schema, source, dest, run, fieldSlugs, allSplashEvents, splashEvents,
                    existingIds, offset, newEvents, synced, syncedEvents, errors,
                    result, thrown, done, createCalls, pages, paced, notifications,
                    prevClean, scanned, reads, mapEvent, projected >>

\* const fieldData = mapSplashToWebflow(event, fieldSlugs); await createWebflowEvent(fieldData):
\* the POST is sent and sync() waits for its answer
IssueCreate ==
    /\ pc = "WRITING"
    /\ idx <= Len(newEvents)
    /\ ~MapThrows(newEvents[idx])
    /\ pc' = "CREATING"
    /\ inFlight' = inFlight + 1
    /\ UNCHANGED << schema, source, dest, run, fieldSlugs, allSplashEvents, splashEvents,
                    existingIds, offset, newEvents, idx, synced, syncedEvents, errors,
                    result, thrown, done, createCalls, pages, paced, notifications,
                    prevClean, scanned, reads, mapEvent, projected >>

\* faulty variant: the accepted create is recorded for the notification and not counted
CreateOkUncounted ==
    /\ pc = "CREATING"
    /\ inFlight' = inFlight - 1
    /\ LET event == newEvents[idx]
           body == CreateBody(MapSplashToWebflow(event, fieldSlugs))
       IN  /\ dest' = Stored(dest, body)
           /\ createCalls' = Append(createCalls, Call(event, body, TRUE))
           /\ syncedEvents' = Append(syncedEvents, event)
    /\ paced' = FALSE
    /\ pc' = "PACING"
    /\ UNCHANGED << schema, source, run, fieldSlugs, allSplashEvents, splashEvents,
                    existingIds, offset, newEvents, idx, synced, errors, result, thrown,
                    done, pages, notifications, prevClean, mapEvent, projected,
                    scanned, reads >>

\* the POST is accepted: synced++; syncedEvents.push(event); then the pacing timer
\* is started
CreateOk ==
    /\ pc = "CREATING"
    /\ inFlight' = inFlight - 1
    /\ LET event == newEvents[idx]
           body == CreateBody(MapSplashToWebflow(event, fieldSlugs))
       IN  /\ dest' = Stored(dest, body)
           /\ createCalls' = Append(createCalls, Call(event, body, TRUE))
           /\ syncedEvents' = Append(syncedEvents, event)
    /\ synced' = synced + 1
    /\ paced' = FALSE
    /\ pc' = "PACING"
    /\ UNCHANGED << schema, source, run, fieldSlugs, allSplashEvents, splashEvents,
                    existingIds, offset, newEvents, idx, errors, result, thrown, done,
                    pages, notifications, prevClean, mapEvent, projected,
                    scanned, reads >>

\* faulty variant: the promise of the pacing timer is never resolved
PaceNeverResolves ==
    /\ pc = "PACING"
    /\ UNCHANGED vars

\* await new Promise(resolve => setTimeout(resolve, 1100)); the loop goes on
Pace ==
    /\ pc = "PACING"
    /\ pc' = "WRITING"
    /\ paced' = TRUE
    /\ idx' = idx + 1
    /\ UNCHANGED << schema, source, dest, run, fieldSlugs, allSplashEvents, splashEvents,
                    existingIds, offset, newEvents, synced, syncedEvents, errors, result,
                    thrown, done, createCalls, pages, notifications, prevClean, mapEvent,
                    projected,
                    scanned, inFlight, reads >>

\* faulty variant: the error of createWebflowEvent is not caught: it leaves sync()
CreateFailAborts ==
    /\ pc = "CREATING"
    /\ inFlight' = inFlight - 1
    /\ LET event == newEvents[idx]
           body == CreateBody(MapSplashToWebflow(event, fieldSlugs))
       IN  createCalls' = Append(createCalls, Call(event, body, FALSE))
    /\ pc' = "FAILED"
    /\ thrown' = "Webflow create failed"
    /\ UNCHANGED << schema, source, dest, run, fieldSlugs, allSplashEvents, splashEvents,
                    existingIds, offset, newEvents, idx, synced, syncedEvents, errors,
                    result, done, pages, paced, notifications, prevClean, mapEvent,
                    projected,
                    scanned, reads >>

\* faulty variant: the catch block leaves the loop on the same event, which is
\* posted again
CreateFailRetries ==
    /\ pc = "CREATING"
    /\ inFlight' = inFlight - 1
    /\ LET event == newEvents[idx]
           body == CreateBody(MapSplashToWebflow(event, fieldSlugs))
       IN  /\ createCalls' = Append(createCalls, Call(event, body, FALSE))
           /\ errors' = Append(errors, [ eventId |-> event.id, error |-> "Webflow create failed" ])
    /\ paced' = FALSE
    /\ pc' = "WRITING"
    /\ UNCHANGED << schema, source, dest, run, fieldSlugs, allSplashEvents, splashEvents,
                    existingIds, offset, newEvents, idx, synced, syncedEvents, result,
                    thrown, done, pages, notifications, prevClean, mapEvent, projected,
                    scanned, reads >>

\* faulty variant: syncedEvents.push(event) comes before the await, so a record
\* whose create call fails is in the list all the same
CreateFailNotified ==
    /\ pc = "CREATING"
    /\ inFlight' = inFlight - 1
    /\ LET event == newEvents[idx]
           body == CreateBody(MapSplashToWebflow(event, fieldSlugs))
       IN  /\ createCalls' = Append(createCalls, Call(event, body, FALSE))
           /\ syncedEvents' = Append(syncedEvents, event)
           /\ errors' = Append(errors, [ eventId |-> event.id, error |-> "Webflow create failed" ])
    /\ paced' = FALSE
    /\ idx' = idx + 1
    /\ pc' = "WRITING"
    /\ UNCHANGED << schema, source, dest, run, fieldSlugs, allSplashEvents, splashEvents,
                    existingIds, offset, newEvents, synced, result, thrown, done, pages,
                    notifications, prevClean, mapEvent, projected, scanned, reads >>

\* createWebflowEvent throws; catch (error) { errors.push({ eventId: event.id, error: ... }) };
\* the loop goes on
CreateFail ==
    /\ pc = "CREATING"
    /\ inFlight' = inFlight - 1
    /\ LET event == newEvents[idx]
           body == CreateBody(MapSplashToWebflow(event, fieldSlugs))
       IN  /\ createCalls' = Append(createCalls, Call(event, body, FALSE))
           /\ errors' = Append(errors, [ eventId |-> event.id, error |-> "Webflow create failed" ])
    /\ paced' = FALSE
    /\ idx' = idx + 1
    /\ pc' = "WRITING"
    /\ UNCHANGED << schema, source, dest, run, fieldSlugs, allSplashEvents, splashEvents,
                    existingIds, offset, newEvents, synced, syncedEvents, result, thrown,
                    done, pages, notifications, prevClean, mapEvent, projected,
                    scanned, reads >>

\* faulty variant: mapSplashToWebflow is called outside the try block
MapFailPropagates ==
    /\ pc = "WRITING"
    /\ idx <= Len(newEvents)
    /\ MapThrows(newEvents[idx])
    /\ pages' = pages
    /\ reads' = reads
    /\ Throw("imageUrl.startsWith is not a function")

\* mapSplashToWebflow throws; catch (error) { errors.push({ eventId: event.id, error: ... }) };
\* no POST is made and the loop goes on
MapFail ==
    /\ pc = "WRITING"
    /\ idx <= Len(newEvents)
    /\ MapThrows(newEvents[idx])
    /\ errors' = Append(errors, [ eventId |-> newEvents[idx].id,
                                  error |-> "imageUrl.startsWith is not a function" ])
    /\ idx' = idx + 1
    /\ UNCHANGED << schema, source, dest, run, pc, fieldSlugs, allSplashEvents,
                    splashEvents, existingIds, offset, newEvents, synced, syncedEvents,
                    result, thrown, done, createCalls, pages, paced, notifications,
                    prevClean, mapEvent, projected, scanned, inFlight, reads >>

\* sendSlackNotification never throws: no webhook, response.ok, !response.ok, fetch rejected
NotifyOutcomes == { "no webhook", "sent", "failed", "error" }

\* return { synced, errors, total: splashEvents.length }
Return ==
    /\ pc' = "DONE"
    /\ result' = Returned([ synced |-> synced, errors |-> errors, total |-> Len(splashEvents) ])

\* faulty variant: sendSlackNotification has no try/catch and throws on !response.ok,
\* so a webhook that rejects the request makes sync() throw
NotifyOrThrow ==
    /\ pc = "WRITING"
    /\ idx > Len(newEvents)
    /\ syncedEvents # << >>
    /\ \E outcome \in NotifyOutcomes :
          /\ notifications' = Append(notifications, [ events |-> syncedEvents, outcome |-> outcome ])
          /\ IF outcome \in { "failed", "error" }
             THEN /\ pc' = "FAILED"
                  /\ thrown' = "Slack notification failed"
                  /\ result' = result
             ELSE /\ Return
                  /\ thrown' = thrown
    /\ UNCHANGED << schema, source, dest, run, fieldSlugs, allSplashEvents, splashEvents,
                    existingIds, offset, newEvents, idx, synced, syncedEvents, errors,
                    done, createCalls, pages, paced, prevClean, mapEvent, projected,
                    scanned, inFlight, reads >>

\* if (syncedEvents.length > 0) await sendSlackNotification(syncedEvents); return ...
NotifyAndReturn ==
    /\ pc = "WRITING"
    /\ idx > Len(newEvents)
    /\ syncedEvents # << >>
    /\ \E outcome \in NotifyOutcomes :
          notifications' = Append(notifications, [ events |-> syncedEvents, outcome |-> outcome ])
    /\ Return
    /\ UNCHANGED << schema, source, dest, run, fieldSlugs, allSplashEvents, splashEvents,
                    existingIds, offset, newEvents, idx, synced, syncedEvents, errors,
                    thrown, done, createCalls, pages, paced, prevClean, mapEvent,
                    projected,
                    scanned, inFlight, reads >>

\* syncedEvents.length === 0: no notification; return ...
ReturnUnnotified ==
    /\ pc = "WRITING"
    /\ idx > Len(newEvents)
    /\ syncedEvents = << >>
    /\ Return
    /\ UNCHANGED << schema, source, dest, run, fieldSlugs, allSplashEvents, splashEvents,
                    existingIds, offset, newEvents, idx, synced, syncedEvents, errors,
                    thrown, done, createCalls, pages, paced, notifications, prevClean,
                    mapEvent, projected,
                    scanned, inFlight, reads >>

\* the process is started again (the next scheduled run): sync() runs from the top
\* against the collection as the first run left it
StartSecondRun ==
    /\ pc \in { "DONE", "FAILED" }
    /\ run = 1
    /\ run' = 2
    /\ prevClean' = (pc = "DONE" /\ errors = << >>)
    /\ FreshRun
    /\ UNCHANGED << schema, source, dest, mapEvent, projected >>

----------------------------------------------------------------------------
(* The stores the runs start from *)

Ids == 1..MaxId

Chars(id) == << "E", "v", " " >> \o Decimal(id)

\* A record of the Splash listing: odd ids carry every optional value, even ids none
SplashEvent(id, published) ==
    [ id |-> id,
      published |-> published,
      title |-> IF id % 2 = 1 THEN Chars(id) ELSE << >>,
      event_start |-> IF id % 2 = 1 THEN "2026-03-01T18:30:00Z" ELSE "",
      fq_url |-> IF id % 2 = 1 THEN "https://splash/e" ELSE "",
      city |-> IF id % 2 = 1 THEN "Austin" ELSE "",
      state |-> IF id % 2 = 1 THEN "TX" ELSE "",
      event_type |-> IF id % 2 = 1 THEN "Launch" ELSE "",
      header_image |-> IF id % 2 = 1 THEN << "http://", "img/a.png" >> ELSE << >> ]

EventPool == { SplashEvent(id, p) : id \in Ids, p \in { JSTrue, JSFalse, JSUndefined } }

Listings == UNION { [ 1..n -> EventPool ] : n \in 0..MaxSource }

CoreSlugs == { "name", "slug", "splash-id" }
AllSlugs ==
    CoreSlugs \cup { "splash-url", "date", "time", "thumbnail", "location-city",
                     "location---state", "event-type-2", "type", "description" }

SyncSchemas == { CoreSlugs, AllSlugs, { "name", "slug", "date" } }

\* An item of the collection that carries the Splash id of an event
SyncedItem(id) ==
    [ isDraft |-> FALSE, isArchived |-> FALSE,
      fieldData |-> [ k \in CoreSlugs |->
                        IF k = "splash-id" THEN String(id) ELSE Chars(id) ] ]

RECURSIVE Ascending(_)
Ascending(S) ==
    IF S = {} THEN << >>
    ELSE LET m == CHOOSE x \in S : \A y \in S : x <= y
         IN  << m >> \o Ascending(S \ { m })

\* A collection of n items in which the events of `present` are synced: the one of
\* the smallest id is the last item, the others are the first items
Collection(n, present) ==
    LET ids == Ascending(present)
    IN  [ len |-> n,
          items |-> [ i \in { IF k = 1 THEN n ELSE k - 1 : k \in DOMAIN ids } |->
                        SyncedItem(IF i = n THEN ids[1] ELSE ids[i + 1]) ] ]

\* small collections, and collections of exactly one full page
SmallCollections ==
    { Collection(n, present) :
        n \in { MaxId + 1, Limit }, present \in SUBSET Ids }

\* collections around the page size: empty, short of a page, exact multiples of it,
\* and 250 items
ScanCollections ==
    { Collection(n, present) :
        n \in { MaxId, Limit - 1, Limit, Limit + 1, 2 * Limit, 2 * Limit + 50 },
        present \in SUBSET Ids } \cup { Collection(0, {}) }

InitWith(schemas, listings, collections) ==
    /\ schema \in schemas
    /\ source \in listings
    /\ dest \in collections
    /\ run = 1
    /\ fieldSlugs = {}
    /\ allSplashEvents = << >>
    /\ splashEvents = << >>
    /\ existingIds = {}
    /\ offset = 0
    /\ newEvents = << >>
    /\ idx = 0
    /\ synced = 0
    /\ syncedEvents = << >>
    /\ errors = << >>
    /\ result = NoResult
    /\ thrown = Nothing
    /\ done = {}
    /\ createCalls = << >>
    /\ pages = << >>
    /\ paced = TRUE
    /\ notifications = << >>
    /\ prevClean = FALSE
    /\ scanned = {}
    /\ inFlight = 0
    /\ reads = << >>

\* sync() is about to be called; no projection is under check
AtStart ==
    /\ pc = "INIT"
    /\ mapEvent = SplashEvent(1, JSTrue)
    /\ projected = EmptyObject

Init == InitWith(SyncSchemas, Listings, SmallCollections) /\ AtStart

InitScan == InitWith({ CoreSlugs }, Listings, ScanCollections) /\ AtStart

\* one run of sync()
Next ==
    \/ EnvMissing
    \/ FetchSchemaOk
    \/ FetchSchemaFail
    \/ GetTokenOk
    \/ GetTokenFail
    \/ FetchEventsOk
    \/ FetchEventsFail
    \/ ScanPage
    \/ ScanPageFail
    \/ Diff
    \/ ReturnNothingNew
    \/ EnterLoop
    \/ IssueCreate
    \/ CreateOk
    \/ Pace
    \/ CreateFail
    \/ NotifyAndReturn
    \/ ReturnUnnotified

Spec == Init /\ [][Next]_vars

\* two runs of sync(), one after the other
NextTwice == Next \/ StartSecondRun

SpecTwice == Init /\ [][NextTwice]_vars

\* one run of sync() against collections of every size around the page size
SpecScan == InitScan /\ [][Next]_vars

\* the listing of three published events 1, 2, 3
ScenarioSource ==
    << SplashEvent(1, JSTrue), SplashEvent(2, JSTrue), SplashEvent(3, JSTrue) >>

\* that listing, and the listing of event 2 alone
ScenarioListings == { ScenarioSource, << SplashEvent(2, JSTrue) >> }

\* collections of one item to more than a page whose only Splash id is that of event 2
ScenarioCollections == { Collection(n, { 2 }) : n \in { 1, 3, Limit, Limit + 1 } }

InitScenario == InitWith({ CoreSlugs }, ScenarioListings, ScenarioCollections) /\ AtStart

\* one run of sync() on these listings against a collection that holds event 2
SpecScenario == InitScenario /\ [][Next]_vars

\* such a run in which every request is answered, with success or with an error
\* status, and every timer fires: a step sync() can take is taken
SpecFair == SpecScenario /\ WF_vars(Next)

\* a published event whose header image is an object
MalformedEvent(id) == [ SplashEvent(id, JSTrue) EXCEPT !.header_image = << NotAString >> ]

LoopPool == { SplashEvent(id, JSTrue) : id \in Ids } \cup { MalformedEvent(id) : id \in Ids }

LoopListings == UNION { [ 1..n -> LoopPool ] : n \in 0..MaxSource }

InitLoop ==
    /\ InitWith({ CoreSlugs }, LoopListings,
                { Collection(MaxId + 1, present) : present \in SUBSET Ids })
    /\ AtStart

NextLoop == Next \/ MapFail

\* one run of sync() on listings with events mapSplashToWebflow throws on
SpecLoop == InitLoop /\ [][NextLoop]_vars

\* an item another writer of the collection makes for the event with this id
ExternalItem(id) ==
    [ isDraft |-> FALSE, isArchived |-> FALSE,
      fieldData |-> [ k \in CoreSlugs |->
                        IF k = "splash-id" THEN String(id) ELSE << "e", "x", "t" >> ] ]

\* the positions of the collection that hold items of the other writer
ExternalItems(d) ==
    { i \in DOMAIN d.items : d.items[i] \in { ExternalItem(id) : id \in Ids } }

\* another writer adds an item to the collection while sync() runs
ExternalWrite ==
    /\ pc \notin { "DONE", "FAILED" }
    /\ Cardinality(ExternalItems(dest)) < MaxExternal
    /\ \E id \in Ids : dest' = Stored(dest, ExternalItem(id))
    /\ UNCHANGED << schema, source, run, pc, fieldSlugs, allSplashEvents, splashEvents,
                    existingIds, offset, newEvents, idx, synced, syncedEvents, errors,
                    result, thrown, done, createCalls, pages, paced, notifications,
                    prevClean, mapEvent, projected, scanned, inFlight, reads >>

\* listings of published events
RaceListings == UNION { [ 1..n -> { SplashEvent(id, JSTrue) : id \in Ids } ] : n \in 0..MaxSource }

InitRace ==
    /\ InitWith({ CoreSlugs }, RaceListings,
                { Collection(MaxId + 1, present) : present \in SUBSET Ids })
    /\ AtStart

NextRace == Next \/ ExternalWrite

\* one run of sync() against a collection that another writer adds to
SpecRace == InitRace /\ [][NextRace]_vars

----------------------------------------------------------------------------
(* mapSplashToWebflow and createWebflowEvent on their own *)

FallLaunch == << "F", "a", "l", "l", " ", "L", "a", "u", "n", "c", "h", " ",
                 "E", "v", "e", "n", "t", "!", "!" >>

MapEvents ==
    { [ id |-> i, published |-> JSTrue, title |-> t, event_start |-> d, fq_url |-> u,
        city |-> l[1], state |-> l[2], event_type |-> l[3], header_image |-> h ] :
        i \in { 12, NoId },
        t \in { << >>, FallLaunch, << "!", "!" >> },
        d \in { "", "not a date", "2026-03-01T18:30:00Z" },
        u \in { "", "https://splash/e" },
        l \in { << "", "", "" >>, << "Austin", "TX", "Launch" >> },
        h \in { << >>, << "http://", "img/a.png" >>, << "https://", "img/a.png" >> } }

MapSchemas ==
    { a \cup b \cup c :
        a \in SUBSET { "name", "slug", "splash-id", "splash-url" },
        b \in { {}, { "date" }, { "time", "thumbnail" }, { "date", "time", "thumbnail" } },
        c \in { {}, { "location-city", "location-state", "event-type" },
                { "location---city", "locationcity", "locationstate", "type", "eventtype" } } }

\* field maps a caller may hand to createWebflowEvent
DirectFields ==
    { [ k \in ks |-> IF k = "isDraft" THEN FALSE ELSE IF k = "isArchived" THEN TRUE ELSE k ] :
        ks \in SUBSET { "name", "slug", "isDraft", "isArchived", "_draft", "published" } }

InitMap ==
    /\ InitWith(MapSchemas, { << >> }, { Collection(0, {}) })
    /\ \/ pc = "PROJECT" /\ mapEvent \in MapEvents /\ projected = EmptyObject
       \/ /\ pc = "DIRECT"
          /\ schema = CoreSlugs
          /\ mapEvent = SplashEvent(1, JSTrue)
          /\ projected \in DirectFields

\* const fieldData = mapSplashToWebflow(event, fieldSlugs)
Project ==
    /\ pc = "PROJECT"
    /\ pc' = "PROJECTED"
    /\ projected' = MapSplashToWebflow(mapEvent, schema)
    /\ UNCHANGED << schema, source, dest, run, fieldSlugs, allSplashEvents, splashEvents,
                    existingIds, offset, newEvents, idx, synced, syncedEvents, errors,
                    result, thrown, done, createCalls, pages, paced, notifications,
                    prevClean, mapEvent,
                    scanned, inFlight, reads >>

\* await createWebflowEvent(eventData): the POST is accepted
PostItem ==
    /\ pc \in { "PROJECTED", "DIRECT" }
    /\ pc' = "POSTED"
    /\ dest' = Stored(dest, CreateBody(projected))
    /\ createCalls' = Append(createCalls, Call(mapEvent, CreateBody(projected), TRUE))
    /\ UNCHANGED << schema, source, run, fieldSlugs, allSplashEvents, splashEvents,
                    existingIds, offset, newEvents, idx, synced, syncedEvents, errors,
                    result, thrown, done, pages, paced, notifications, prevClean,
                    mapEvent, projected,
                    scanned, inFlight, reads >>

\* createWebflowEvent: if (!response.ok) throw
PostItemFail ==
    /\ pc \in { "PROJECTED", "DIRECT" }
    /\ pc' = "POST_FAILED"
    /\ thrown' = "Webflow create failed"
    /\ createCalls' = Append(createCalls, Call(mapEvent, CreateBody(projected), FALSE))
    /\ UNCHANGED << schema, source, dest, run, fieldSlugs, allSplashEvents, splashEvents,
                    existingIds, offset, newEvents, idx, synced, syncedEvents, errors,
                    result, done, pages, paced, notifications, prevClean, mapEvent,
                    projected,
                    scanned, inFlight, reads >>

NextMap == Project \/ PostItem \/ PostItemFail

\* one call of mapSplashToWebflow, or of createWebflowEvent, on inputs of every shape
SpecMap == InitMap /\ [][NextMap]_vars

\* titles: every string of at most MaxTitle characters over a letter of each case, a
\* digit, a space, a hyphen and a punctuation mark; the title of the README's
\* example; and titles whose slug is cut by substring(0, 100)
TitleChars == { "A", "b", "1", " ", "-", "!" }

ShortTitles == UNION { [ 1..n -> TitleChars ] : n \in 0..MaxTitle }

LongTitles ==
    { [ i \in 1..(SlugMax - 1) |-> "a" ] \o t :
        t \in { << >>, << "B" >>, << "b", "c" >>, << " ", "b" >>, << "!", "!", "b", "c" >>,
                << "b", " ", "c" >> } }

SlugTitles == ShortTitles \cup LongTitles \cup { FallLaunch }

\* an event with every optional value and the given title
TitledEvent(t) == [ SplashEvent(1, JSTrue) EXCEPT !.title = t ]

InitSlug ==
    /\ InitWith({ CoreSlugs }, { << >> }, { Collection(0, {}) })
    /\ pc = "PROJECT"
    /\ mapEvent \in { TitledEvent(t) : t \in SlugTitles }
    /\ projected = EmptyObject

\* mapSplashToWebflow on events of every title, and the POST of the result
SpecSlug == InitSlug /\ [][NextMap]_vars

----------------------------------------------------------------------------
(* Properties *)

FailedCalls == { i \in DOMAIN createCalls : ~createCalls[i].ok }

AllReads == { "schema", "token", "source", "scan" }

AfterDiff == { "DIFFED", "WRITING", "CREATING", "PACING", "DONE" }

\* C1: idempotence. When the first run returned without a failed write, the second
\* run over the same listing, against the collection as the first run left it,
\* issues no create call.
C1_SecondRunCreatesNothing ==
    (run = 2 /\ prevClean) => createCalls = << >>

\* C2: partial-failure isolation. When exactly one create call of the run has
\* failed, the run does not abort, and once it has returned: every new record has
\* had its create call, synced is the number of new records less one, and errors
\* holds exactly one entry, which names the record whose create call failed.
C2_PartialFailureIsolation ==
    Cardinality(FailedCalls) = 1 =>
        /\ pc # "FAILED"
        /\ pc = "DONE" =>
            LET k == CHOOSE i \in FailedCalls : TRUE
            IN  /\ result.kind = "returned"
                /\ Len(createCalls) = Len(newEvents)
                /\ \A i \in DOMAIN newEvents : createCalls[i].event = newEvents[i]
                /\ result.value.synced = Len(newEvents) - 1
                /\ Len(result.value.errors) = 1
                /\ result.value.errors[1].eventId = newEvents[k].id

\* C2 witness: a run of two new records has returned after the create call of the
\* first one failed and that of the second one succeeded
C2_Witness ==
    /\ pc = "DONE"
    /\ Len(newEvents) = 2
    /\ FailedCalls = { 1 }
    /\ createCalls[2].ok

\* C3: no create call without the four reads. A create call has been issued only
\* when the schema probe, the token acquisition, the source listing and the whole
\* dedup scan succeeded earlier in the run; a run in which one of them failed has
\* thrown, has returned no result, and has issued no create call and no notification.
C3_ReadsBeforeWrites ==
    /\ createCalls # << >> => AllReads \subseteq done
    /\ result # NoResult => AllReads \subseteq done
    /\ pc = "FAILED" =>
        /\ thrown # Nothing
        /\ result = NoResult
        /\ createCalls = << >>
        /\ notifications = << >>
    /\ ~(AllReads \subseteq done) /\ pc \notin { "INIT", "SCHEMA_LOADED", "AUTHED", "SOURCE_LOADED" } =>
        pc = "FAILED"

\* C3 witness: a create call has been issued after a dedup scan of two pages
C3_Witness ==
    /\ createCalls # << >>
    /\ Len(pages) = 2
    /\ AllReads \subseteq done

\* C4: diff rule. The records selected as new are exactly the records of the
\* listing that are published and whose id, as a string, is not in the dedup index.
C4_DiffRule ==
    pc \in AfterDiff =>
        Range(newEvents) =
            { source[j] : j \in { i \in DOMAIN source :
                                    /\ source[i].published = JSTrue
                                    /\ String(source[i].id) \notin existingIds } }

\* C4 witness: the diff selected one record and left out a published one that the
\* collection already holds
C4_Witness ==
    /\ pc = "DIFFED"
    /\ Len(newEvents) = 1
    /\ \E j \in DOMAIN source :
          source[j].published = JSTrue /\ String(source[j].id) \in existingIds

\* C5: exclusion rule. No create call is issued for a record whose published flag
\* is not true.
C5_UnpublishedNeverWritten ==
    \A i \in DOMAIN createCalls : createCalls[i].event.published = JSTrue

\* C5 witness: a create call has been issued in a run whose listing holds a record
\* with published false and one with published undefined
C5_Witness ==
    /\ createCalls # << >>
    /\ \E j \in DOMAIN source : source[j].published = JSUndefined

C7_CreatedCarriesSplashId ==
    \A i \in DOMAIN createCalls :
        createCalls[i].ok =>
            /\ "splash-id" \in DOMAIN createCalls[i].body.fieldData
            /\ createCalls[i].body.fieldData["splash-id"] = String(createCalls[i].event.id)

\* C8: pacing. Every create call of a run but the first is issued after a pacing
\* delay that completed after the create call before it, whether that one
\* succeeded or failed.
C8_DelayBetweenCreates ==
    \A i \in DOMAIN createCalls : i > 1 => createCalls[i].paced

\* C9: every create call marks the item as a draft and as not archived, whatever
\* the field map it is given holds, and so is every item a call has stored (the
\* collection starts empty here).
C9_AlwaysDraft ==
    /\ \A i \in DOMAIN createCalls :
          createCalls[i].body.isDraft /\ ~createCalls[i].body.isArchived
    /\ \A i \in DOMAIN dest.items : dest.items[i].isDraft /\ ~dest.items[i].isArchived

\* C9 witness: createWebflowEvent has stored an item for a field map that itself
\* holds isDraft false and isArchived true
C9_Witness ==
    /\ pc = "POSTED"
    /\ { "isDraft", "isArchived" } \subseteq DOMAIN projected
    /\ ~projected["isDraft"]
    /\ dest.len = 1

\* C10: dedup scan coverage. Against a collection that does not change during the
\* scan, fetchExistingSplashIds returns exactly the set of the non-empty 'splash-id'
\* values of all the items, whatever their number.
C10_ScanCoversCollection ==
    pc \in { "DEDUP_LOADED", "DIFFED" } => existingIds = StoredIds(dest)

\* C10 witness: the scan has returned for a collection of exactly two full pages
\* whose last item carries a Splash id, and which holds items without one
C10_Witness ==
    /\ pc = "DEDUP_LOADED"
    /\ dest.len = 2 * Limit
    /\ dest.len \in DOMAIN dest.items
    /\ existingIds # {}
    /\ Len(pages) = 3

\* the page requests of the run that were answered with an error status
FailedPages == { i \in DOMAIN pages : ~pages[i].ok }

\* the number of items of each page the scan was given, in request order
PageCounts == [ i \in DOMAIN pages |-> pages[i].count ]

\* C11: dedup scan paging. The i-th page request of the scan carries offset
\* (i - 1) * 100 and limit 100; every page before the last one requested was full, so
\* the scan never stops at a full page; a scan that has returned stopped at a page
\* of fewer than 100 items and its index holds no more ids than the collection has
\* items; a collection of 250 items is scanned in the three pages 100, 100, 50 and
\* gives an index of at most 250 ids.
C11_ScanPaging ==
    /\ \A i \in DOMAIN pages :
          /\ pages[i].offset = (i - 1) * Limit
          /\ pages[i].limit = Limit
          /\ i < Len(pages) => pages[i].ok /\ pages[i].count = Limit
    /\ pc = "SOURCE_LOADED" =>
          /\ \A i \in DOMAIN pages : pages[i].count = Limit
          /\ offset = Len(pages) * Limit
    /\ "scan" \in done =>
          /\ pages # << >>
          /\ pages[Len(pages)].ok
          /\ pages[Len(pages)].count < Limit
          /\ Cardinality(existingIds) <= dest.len
    /\ ("scan" \in done /\ dest.len = 2 * Limit + 50) =>
          /\ PageCounts = << Limit, Limit, 50 >>
          /\ Cardinality(existingIds) <= 2 * Limit + 50

\* C11 witness: the scan of a collection of 250 items has returned after three page
\* requests with a Splash id in its index
C11_Witness ==
    /\ pc = "DEDUP_LOADED"
    /\ dest.len = 2 * Limit + 50
    /\ Len(pages) = 3
    /\ pages[3].offset = 2 * Limit
    /\ existingIds # {}

\* C12: a failed page request of the dedup scan, on the first page or a later one,
\* makes the run fail with the error of the scan: no index is returned to sync()
\* (existingIds stays empty whatever earlier pages held), no diff is made, no create
\* call is issued and sync() returns no result.
C12_FailedScanReturnsNoIndex ==
    FailedPages # {} =>
        /\ pc = "FAILED"
        /\ thrown = "Webflow fetch failed"
        /\ existingIds = {}
        /\ "scan" \notin done
        /\ newEvents = << >>
        /\ createCalls = << >>
        /\ result = NoResult

\* C12 witness: the second page request failed after the first page gave Splash ids
C12_Witness ==
    /\ pc = "FAILED"
    /\ Len(pages) = 2
    /\ FailedPages = { 2 }
    /\ scanned # {}

\* the Splash ids of the create calls of the run, in call order
CalledIds == [ i \in DOMAIN createCalls |-> createCalls[i].event.id ]

\* the create calls Webflow accepted
AcceptedCalls == { i \in DOMAIN createCalls : createCalls[i].ok }

\* C13: end-to-end scenario. With a listing of three published events 1, 2, 3, a
\* schema {name, slug, splash-id} and a scan that returned exactly the id of event 2,
\* the create calls made so far are for event 1 and then event 3 and nothing else,
\* and a run that has returned made exactly these two calls and returned total = 3
\* and synced = the number of accepted calls, at most 2.
C13_Scenario ==
    (source = ScenarioSource /\ fieldSlugs = CoreSlugs /\ existingIds = { String(2) }) =>
        /\ CalledIds \in { << >>, << 1 >>, << 1, 3 >> }
        /\ pc = "DONE" =>
              /\ CalledIds = << 1, 3 >>
              /\ result.value.total = 3
              /\ result.value.synced = Cardinality(AcceptedCalls)
              /\ result.value.synced <= 2

\* C13 witness: the scenario's run has returned after both creates were accepted
C13_Witness ==
    /\ source = ScenarioSource
    /\ fieldSlugs = CoreSlugs
    /\ existingIds = { String(2) }
    /\ pc = "DONE"
    /\ Len(createCalls) = 2
    /\ result.value.synced = 2

\* C14: write ordering. The i-th create call of the run is for the i-th new record,
\* and the new records are the published records of the listing that the index
\* lacks, in listing order; at most one create call is in flight at any time, one
\* is in flight exactly while sync() awaits createWebflowEvent, and at that moment
\* every call for an earlier new record has completed, accepted or failed.
C14_SequentialCreates ==
    /\ inFlight \in { 0, 1 }
    /\ inFlight = 1 <=> pc = "CREATING"
    /\ pc = "CREATING" => Len(createCalls) = idx - 1
    /\ \A i \in DOMAIN createCalls :
          /\ i \in DOMAIN newEvents
          /\ createCalls[i].index = i
          /\ createCalls[i].event = newEvents[i]
    /\ pc \in AfterDiff =>
          newEvents = SelectSeq(source, LAMBDA e :
                                   e.published = JSTrue /\ String(e.id) \notin existingIds)

\* C14 witness: the create call of the second new record is in flight after the
\* call of the first one failed
C14_Witness ==
    /\ pc = "CREATING"
    /\ inFlight = 1
    /\ idx = 2
    /\ Len(createCalls) = 1
    /\ ~createCalls[1].ok

\* C15: no retry. No two create calls of a run are for the same position of the
\* list of new records, also when the first of them failed, and the run never makes
\* more create calls than it has new records.
C15_NoRetry ==
    /\ Len(createCalls) <= Len(newEvents)
    /\ \A i, j \in DOMAIN createCalls :
          createCalls[i].index = createCalls[j].index => i = j
    /\ \A i \in FailedCalls :
          \A j \in DOMAIN createCalls : j > i => createCalls[j].index > createCalls[i].index

\* C15 witness: the run has returned after the create call of its first new record
\* failed and the next record had its call
C15_Witness ==
    /\ pc = "DONE"
    /\ Len(createCalls) = 2
    /\ ~createCalls[1].ok
    /\ Len(result.value.errors) >= 1

\* C16: every run that returns normally returns an object that has the total
\* count, the created count and the failure list, on every return path.
C16_ResultCarriesAllFields ==
    pc = "DONE" =>
        /\ result.kind = "returned"
        /\ { "total", "synced", "errors" } \subseteq DOMAIN result.value

\* the errors array the create calls of the run amount to: one entry for each call
\* that failed, in call order
ErrorsOfCalls ==
    LET failed == SelectSeq(createCalls, LAMBDA c : ~c.ok)
    IN  [ i \in DOMAIN failed |->
            [ eventId |-> failed[i].event.id, error |-> "Webflow create failed" ] ]

\* C17: notification isolation. Once sendSlackNotification has been called, however
\* the delivery went (no webhook configured, sent, non-OK status, request rejected),
\* sync() has not thrown and has returned the result that the listing and the create
\* calls alone determine, the same for every outcome of the delivery; the
\* notification is attempted once.
C17_NotificationIsolation ==
    notifications # << >> =>
        /\ Len(notifications) = 1
        /\ pc = "DONE"
        /\ thrown = Nothing
        /\ result = Returned([ synced |-> Cardinality(AcceptedCalls),
                               errors |-> ErrorsOfCalls,
                               total  |-> Len(SelectSeq(source, LAMBDA e : e.published = JSTrue)) ])

\* C17 witness: the webhook request was rejected after a run in which one create
\* was accepted and one failed
C17_Witness ==
    /\ notifications # << >>
    /\ notifications[1].outcome = "error"
    /\ pc = "DONE"
    /\ result.value.synced = 1
    /\ Len(result.value.errors) = 1

\* the place of a control point of sync() in the chain
\* INIT, SCHEMA_LOADED, SOURCE_LOADED, DEDUP_LOADED, DIFFED, WRITING, DONE:
\* the token request belongs to SCHEMA_LOADED, and the await of a create call and
\* the pacing timer to WRITING; a run that has thrown has left the chain
Stage(p) ==
    CASE p = "INIT" -> 1
      [] p \in { "SCHEMA_LOADED", "AUTHED" } -> 2
      [] p = "SOURCE_LOADED" -> 3
      [] p = "DEDUP_LOADED" -> 4
      [] p = "DIFFED" -> 5
      [] p \in { "WRITING", "CREATING", "PACING" } -> 6
      [] p = "DONE" -> 7
      [] OTHER -> 8

\* how many times the run has made the request with this tag
TimesRead(tag) == Cardinality({ i \in DOMAIN reads : reads[i] = tag })

\* C18: the run is a linear state machine. A step of sync() stays in its state of
\* the chain INIT, SCHEMA_LOADED, SOURCE_LOADED, DEDUP_LOADED, DIFFED, WRITING, DONE
\* or enters the next one (from DIFFED also DONE directly, when nothing is new; a
\* failed read leaves the chain from one of the first three states), so no state is
\* entered out of order or re-entered; the schema probe, the token acquisition and
\* the source listing are never made twice, and a run that has got to
\* SOURCE_LOADED or further has made each exactly once, in this order.
C18_LinearRun ==
    /\ [](/\ \A tag \in { "schema", "token", "source" } : TimesRead(tag) <= 1
          /\ Stage(pc) \in 3..7 => reads = << "schema", "token", "source" >>)
    /\ [][/\ Stage(pc') >= Stage(pc)
          /\ \/ Stage(pc') \in { Stage(pc), Stage(pc) + 1 }
             \/ pc = "DIFFED" /\ pc' = "DONE"
             \/ pc' = "FAILED" /\ Stage(pc) <= 3]_vars

\* C18 witness: a run has gone through every state of the chain and returned after
\* two create calls
C18_Witness ==
    /\ pc = "DONE"
    /\ Len(createCalls) = 2
    /\ reads = << "schema", "token", "source" >>
    /\ AllReads \subseteq done

\* C19: optional scalar fields. The map returned by mapSplashToWebflow has the
\* identifier field, the external URL field, a city field, a state field or an
\* event type field only if the schema has that key and the record's value for it
\* is present and non-empty; in particular no 'splash-id' for a record without id.
C19_OptionalFieldsNeedValue ==
    pc = "PROJECTED" =>
        /\ "splash-id" \in DOMAIN projected =>
              "splash-id" \in schema /\ mapEvent.id # NoId
        /\ "splash-url" \in DOMAIN projected =>
              "splash-url" \in schema /\ mapEvent.fq_url # ""
        /\ \A i \in DOMAIN CitySlugs : CitySlugs[i] \in DOMAIN projected =>
              CitySlugs[i] \in schema /\ mapEvent.city # ""
        /\ \A i \in DOMAIN StateSlugs : StateSlugs[i] \in DOMAIN projected =>
              StateSlugs[i] \in schema /\ mapEvent.state # ""
        /\ \A i \in DOMAIN TypeSlugs : TypeSlugs[i] \in DOMAIN projected =>
              TypeSlugs[i] \in schema /\ mapEvent.event_type # ""

\* the length of the run of characters of [a-z0-9] a string starts with
WordLen(s) == Cardinality({ k \in DOMAIN s : \A i \in 1..k : SlugChar(s[i]) })

\* the maximal runs of characters of [a-z0-9] of a string, in order
RECURSIVE Words(_)
Words(s) ==
    LET n == WordLen(s)
    IN  IF s = << >> THEN << >>
        ELSE IF n = 0 THEN Words(Tail(s))
        ELSE << SubSeq(s, 1, n) >> \o Words(SubSeq(s, n + 1, Len(s)))

\* the words with one hyphen between neighbours
RECURSIVE Hyphenated(_)
Hyphenated(ws) ==
    IF ws = << >> THEN << >>
    ELSE IF Len(ws) = 1 THEN ws[1]
    ELSE ws[1] \o << "-" >> \o Hyphenated(Tail(ws))

\* the lower-cased title with each maximal run outside [a-z0-9] made one hyphen
\* and the hyphens at both ends removed: a hyphen at an end stands for a run at
\* that end, a hyphen inside separates two words
Slugged(title) == Hyphenated(Words(ToLowerCase(title)))

\* C21: slug generation. The slug of the projected map is the title lower-cased,
\* each maximal run of characters outside [a-z0-9] made one hyphen, the hyphens at
\* the two ends removed, and the first 100 characters of that kept (so the cut
\* comes last and may leave a hyphen at the end); the title
\* "Fall Launch Event!!" gives "fall-launch-event".
C21_SlugGeneration ==
    pc = "PROJECTED" =>
        LET title == projected.name
            whole == Slugged(title)
        IN  /\ title = TitleOf(mapEvent)
            /\ projected.slug = SubSeq(whole, 1, Min(Len(whole), 100))
            /\ Len(projected.slug) <= 100
            /\ title = FallLaunch =>
                  projected.slug = << "f", "a", "l", "l", "-", "l", "a", "u", "n", "c", "h",
                                      "-", "e", "v", "e", "n", "t" >>

\* C21 witness: a title whose hyphenated form is longer than 100 characters has
\* been projected and the cut left a hyphen at the end of the slug
C21_Witness ==
    /\ pc = "PROJECTED"
    /\ Len(projected.name) > 100
    /\ Len(projected.slug) = 100
    /\ projected.slug[100] = "-"

\* C22: the projected map always has 'name' and 'slug'; for a record whose title is
\* absent or empty the name is 'Untitled Event' and the slug the slug of that text;
\* the slug is never the empty string.
C22_NameAndSlugAlways ==
    pc = "PROJECTED" =>
        /\ { "name", "slug" } \subseteq DOMAIN projected
        /\ mapEvent.title = << >> =>
              /\ projected.name = Untitled
              /\ projected.slug = << "u", "n", "t", "i", "t", "l", "e", "d", "-",
                                     "e", "v", "e", "n", "t" >>
        /\ projected.slug # << >>

\* the alias keys of a list that the map has
AliasKeys(aliases) == { aliases[i] : i \in DOMAIN aliases } \cap DOMAIN projected

\* the alias keys of a list that the schema has, as positions of the list
InSchema(aliases) == { i \in DOMAIN aliases : aliases[i] \in schema }

\* the alias rule for one logical field: with a non-empty value the map has the
\* first alias of the list that the schema has, with that value, and no other
\* alias of the list; none at all when the schema has none
FirstAliasOnly(aliases, value) ==
    value # "" =>
        IF InSchema(aliases) = {} THEN AliasKeys(aliases) = {}
        ELSE LET first == CHOOSE i \in InSchema(aliases) : \A j \in InSchema(aliases) : i <= j
             IN  /\ AliasKeys(aliases) = { aliases[first] }
                 /\ projected[aliases[first]] = value

\* C23: alias resolution. For city, state and event type with a non-empty value the
\* projected map has exactly one alias key of the field, the first of the ordered
\* alias list that is in the schema, and none when no alias is in the schema; two
\* aliases of one field never appear together.
C23_AliasResolution ==
    pc = "PROJECTED" =>
        /\ FirstAliasOnly(CitySlugs, mapEvent.city)
        /\ FirstAliasOnly(StateSlugs, mapEvent.state)
        /\ FirstAliasOnly(TypeSlugs, mapEvent.event_type)
        /\ \A aliases \in { CitySlugs, StateSlugs, TypeSlugs } :
              Cardinality(AliasKeys(aliases)) <= 1

\* C23 witness: a record with a city and an event type has been projected onto a
\* schema with two city aliases and two type aliases, none the first of its list
C23_Witness ==
    /\ pc = "PROJECTED"
    /\ mapEvent.city # ""
    /\ { "location---city", "locationcity", "type", "eventtype" } \subseteq schema
    /\ "location-city" \notin schema
    /\ "location---city" \in DOMAIN projected
    /\ "eventtype" \in DOMAIN projected

\* C24: timestamp handling. For a record whose event_start is present and parses
\* to an instant, the map has 'date' exactly when the schema has 'date' and 'time'
\* exactly when the schema has 'time', one whatever the other, with the ISO form
\* and the clock time of that instant; for a record whose event_start is absent or
\* does not parse the map has neither, and the projection still returns its map.
C24_Timestamp ==
    pc = "PROJECTED" =>
        LET start == mapEvent.event_start
            valid == start \in { "2026-03-01T18:30:00Z", "March 5, 2026 09:05" }
        IN  /\ thrown = Nothing
            /\ { "name", "slug" } \subseteq DOMAIN projected
            /\ valid =>
                  /\ "date" \in DOMAIN projected <=> "date" \in schema
                  /\ "time" \in DOMAIN projected <=> "time" \in schema
                  /\ "date" \in schema => projected["date"] = Instants[start].iso
                  /\ "time" \in schema => projected["time"] = Instants[start].time
            /\ ~valid => { "date", "time" } \cap DOMAIN projected = {}

\* C24 witness: a record with a valid event_start has been projected onto a schema
\* that has 'time' and not 'date', and the map has the time
C24_Witness ==
    /\ pc = "PROJECTED"
    /\ mapEvent.event_start = "2026-03-01T18:30:00Z"
    /\ "time" \in schema
    /\ "date" \notin schema
    /\ projected["time"] = "6:30 PM"

\* C25: media reference. The map has 'thumbnail' exactly when the record has a
\* header image and the schema has 'thumbnail'; the entry is an object with the one
\* property url; the url never starts with 'http://': a header image URL that
\* starts with 'http://' is written with 'https://' in its place, any other URL as
\* it is.
C25_Thumbnail ==
    pc = "PROJECTED" =>
        LET image == mapEvent.header_image
        IN  /\ "thumbnail" \in DOMAIN projected <=> (image # << >> /\ "thumbnail" \in schema)
            /\ "thumbnail" \in DOMAIN projected =>
                  /\ DOMAIN projected["thumbnail"] = { "url" }
                  /\ Head(projected["thumbnail"].url) # "http://"
                  /\ projected["thumbnail"].url =
                        IF Head(image) = "http://" THEN << "https://" >> \o Tail(image)
                        ELSE image

\* C25 witness: a record whose header image URL starts with 'http://' has been
\* projected onto a schema with 'thumbnail'
C25_Witness ==
    /\ pc = "PROJECTED"
    /\ mapEvent.header_image # << >>
    /\ Head(mapEvent.header_image) = "http://"
    /\ "thumbnail" \in DOMAIN projected
    /\ Head(projected["thumbnail"].url) = "https://"

\* the positions among the first n new records whose attempt failed: the
\* projection threw, or the create call made for the position failed
FailedAttempts(n) ==
    { i \in 1..n : \/ MapThrows(newEvents[i])
                   \/ \E k \in FailedCalls : createCalls[k].index = i }

\* the errors list these failures amount to, in loop order
ErrorsOfAttempts(n) ==
    LET at == Ascending(FailedAttempts(n))
    IN  [ k \in DOMAIN at |->
            [ eventId |-> newEvents[at[k]].id,
              error |-> IF MapThrows(newEvents[at[k]])
                        THEN "imageUrl.startsWith is not a function"
                        ELSE "Webflow create failed" ] ]

\* C26: once the write loop has been entered (idx >= 1) the run never fails: an
\* error thrown by the projection or by the create call of a record becomes one
\* entry of the errors list, with the record's id, and the loop goes on to the next
\* record; the run then returns a result whose errors are these entries and whose
\* synced count and errors account for every new record.
C26_LoopErrorsContained ==
    /\ pc = "FAILED" => idx = 0 /\ errors = << >>
    /\ pc \in { "WRITING", "CREATING", "PACING" } =>
          /\ thrown = Nothing
          /\ errors = ErrorsOfAttempts(IF pc = "WRITING" THEN idx - 1 ELSE idx)
    /\ (pc = "DONE" /\ newEvents # << >>) =>
          /\ thrown = Nothing
          /\ result.kind = "returned"
          /\ result.value.errors = ErrorsOfAttempts(Len(newEvents))
          /\ result.value.synced + Len(result.value.errors) = Len(newEvents)

\* C26 witness: a run has returned after the projection of its first new record
\* threw and the create call of its second one failed
C26_Witness ==
    /\ pc = "DONE"
    /\ Len(newEvents) = 2
    /\ MapThrows(newEvents[1])
    /\ Len(createCalls) = 1
    /\ ~createCalls[1].ok
    /\ Len(result.value.errors) = 2

\* C27: create-only. A step of sync() leaves the collection as it is, or adds one
\* item at its end, the body of a create call Webflow accepted in that step, and
\* leaves every item the collection had, at its position and with its content,
\* those with the Splash id of a listed record included.
C27_CreateOnly ==
    [][\/ dest' = dest
       \/ /\ dest'.len = dest.len + 1
          /\ \A i \in 1..dest.len : DestItem(dest', i) = DestItem(dest, i)
          /\ Len(createCalls') = Len(createCalls) + 1
          /\ createCalls'[Len(createCalls')].ok
          /\ DestItem(dest', dest'.len) = createCalls'[Len(createCalls')].body]_vars

\* C27 witness: a run has created an item in a collection that holds an item with
\* the Splash id of another record of the listing
C27_Witness ==
    /\ pc = "DONE"
    /\ AcceptedCalls # {}
    /\ \E j \in DOMAIN source :
          source[j].published = JSTrue /\ String(source[j].id) \in existingIds

\* how a run ends when one of its reads fails or the environment is incomplete
ReadFailures ==
    { "Missing required env vars", "Webflow schema fetch failed", "Splash auth failed",
      "Splash events fetch failed", "Webflow fetch failed" }

\* C28: termination. When every request is answered and every timer fires, a run
\* ends: it fails on a read (before any create call) or it returns; a run that has
\* returned has made one create call for every new record, and a run that has
\* started on its create calls goes on to return, it does not stop between them.
C28_Termination ==
    /\ <>(pc \in { "FAILED", "DONE" })
    /\ [](pc = "FAILED" => thrown \in ReadFailures /\ createCalls = << >>)
    /\ [](pc = "DONE" => /\ Len(createCalls) = Len(newEvents)
                         /\ \A i \in DOMAIN newEvents : createCalls[i].event = newEvents[i])
    /\ (pc \in { "WRITING", "CREATING", "PACING" }) ~> (pc = "DONE")

\* C28 witness: a run has returned after a create call for each of two new records,
\* the first of which failed
C28_Witness ==
    /\ pc = "DONE"
    /\ Len(newEvents) = 2
    /\ Len(createCalls) = 2
    /\ FailedCalls = { 1 }
    /\ result.kind = "returned"

\* C29: the dedup index is read once and then left alone. Once the scan has
\* returned, no step requests a page or changes the index, and after the diff no
\* step changes the list of new records; every create call is for a record whose id
\* the index lacks, and a run that returns has made the create call of every new
\* record whatever the collection holds by then, so also for a record another
\* writer added after the scan.
C29_IndexReadOnce ==
    /\ [][(pc \in { "DEDUP_LOADED" } \cup AfterDiff =>
               existingIds' = existingIds /\ pages' = pages)
          /\ (pc \in AfterDiff => newEvents' = newEvents)]_vars
    /\ [](\A i \in DOMAIN createCalls : String(createCalls[i].event.id) \notin existingIds)
    /\ [](pc = "DONE" => Len(createCalls) = Len(newEvents))

\* C29 witness: after the scan another writer added an item for a record the index
\* lacks, sync() created that record all the same, and the collection holds two
\* items with its Splash id
C29_Witness ==
    /\ pc = "DONE"
    /\ \E i \in ExternalItems(dest) : \E k \in AcceptedCalls :
          /\ SplashIdOf(dest.items[i]) = String(createCalls[k].event.id)
          /\ SplashIdOf(dest.items[i]) \notin existingIds
          /\ \E j \in DOMAIN dest.items :
                j > i /\ dest.items[j] = createCalls[k].body

\* the events of the create calls Webflow accepted, in call order
AcceptedEvents ==
    LET at == Ascending(AcceptedCalls)
    IN  [ k \in DOMAIN at |-> createCalls[at[k]].event ]

\* C30: the notifier. sendSlackNotification is called at most once in a run, only
\* when the loop has made the create call of every new record, and only with a
\* non-empty list; the list is the events of the accepted create calls in call
\* order, so every entry is a new record and no entry comes from a failed call; a
\* run that returns without an accepted create call has not called it.
C30_NotifierOnce ==
    /\ Len(notifications) <= 1
    /\ notifications # << >> =>
          /\ pc = "DONE"
          /\ Len(createCalls) = Len(newEvents)
          /\ notifications[1].events # << >>
          /\ notifications[1].events = AcceptedEvents
          /\ \A k \in DOMAIN notifications[1].events :
                \E i \in AcceptedCalls : /\ newEvents[createCalls[i].index] = notifications[1].events[k]
                                         /\ String(notifications[1].events[k].id) \notin existingIds
    /\ (pc = "DONE" /\ AcceptedCalls = {}) => notifications = << >>

\* C30 witness: the notifier was called with one event after a run in which the
\* create call of the first new record failed and that of the second was accepted
C30_Witness ==
    /\ pc = "DONE"
    /\ Len(notifications) = 1
    /\ FailedCalls = { 1 }
    /\ AcceptedCalls = { 2 }
    /\ notifications[1].events = << newEvents[2] >>

\* the number of new records the write loop is done with: in PACING the record at
\* idx has been created, in WRITING and CREATING the records before idx are done
Processed == IF pc = "PACING" THEN idx ELSE idx - 1

\* C31: result accounting. At every point of the write loop synced + errors.length
\* is the number of new records the loop is done with and synced is the number of
\* accepted create calls; when the run has returned, synced + errors.length is the
\* number of new records, the returned synced is that count of accepted calls, the
\* returned errors (where the result has them) are the loop's, and
\* synced <= number of new records <= total.
C31_ResultAccounting ==
    /\ pc \in { "WRITING", "CREATING", "PACING" } =>
          /\ synced + Len(errors) = Processed
          /\ synced = Cardinality(AcceptedCalls)
          /\ synced = Len(syncedEvents)
    /\ pc = "DONE" =>
          /\ synced + Len(errors) = Len(newEvents)
          /\ result.value.synced = synced
          /\ result.value.synced = Cardinality(AcceptedCalls)
          /\ "errors" \in DOMAIN result.value => result.value.errors = errors
          /\ result.value.synced <= Len(newEvents)
          /\ Len(newEvents) <= result.value.total
          /\ result.value.total = Len(splashEvents)

\* C31 witness: a run of two new records has returned with one record created and
\* one error, after the projection of the first record threw
C31_Witness ==
    /\ pc = "DONE"
    /\ Len(newEvents) = 2
    /\ MapThrows(newEvents[1])
    /\ result.value.synced = 1
    /\ Len(result.value.errors) = 1

\* C32: duplicate prevention within a run. No two accepted create calls of a run
\* are for the same Splash id, for any listing, one that lists an id twice
\* included, so the collection never holds two items created by the run with the
\* same 'splash-id'.
C32_OneCreatePerId ==
    /\ \A i, j \in AcceptedCalls :
          createCalls[i].event.id = createCalls[j].event.id => i = j
    /\ \A i, j \in DOMAIN dest.items :
          ( /\ i # j
            /\ TruthySeq(SplashIdOf(dest.items[i]))
            /\ \E k \in AcceptedCalls : dest.items[i] = createCalls[k].body
            /\ \E k \in AcceptedCalls : dest.items[j] = createCalls[k].body )
          => SplashIdOf(dest.items[i]) # SplashIdOf(dest.items[j])

====
